---- MODULE Spec2Model ----
(***************************************************************************)
(* Model of jules-scratch/verification/verify_edit_route.py: the scenario  *)
(* test_edit_route_name, a straight-line sequence of thirteen blocking     *)
(* Playwright calls against the route pages of the application, together   *)
(* with the application and the screenshot file the calls act on.          *)
(*                                                                         *)
(* Text (accessible names, visible text, route names) is a sequence of     *)
(* words; a URL is a sequence of characters.                               *)
(***************************************************************************)
EXTENDS Integers, Sequences, FiniteSets, TLC

\* Number of times the scenario is run against the same application.
MaxRuns == 2

----------------------------------------------------------------------------
(* Literals of the script *)

\* "http://localhost:5174", the origin of both goto targets.
Origin ==
  <<"h","t","t","p",":","/","/","l","o","c","a","l","h","o","s","t",":","5","1","7","4">>

\* "/routes/create"
CreatePath == <<"/","r","o","u","t","e","s","/","c","r","e","a","t","e">>

\* "/routes"
ListPath == <<"/","r","o","u","t","e","s">>

\* "/routes/edit/"
EditPrefix == <<"/","r","o","u","t","e","s","/","e","d","i","t","/">>

NewRouteName == <<"New", "Route", "Name">>

ScreenshotPath == "jules-scratch/verification/verification.png"

\* The calls of test_edit_route_name, by name.
\*   op     the driver call
\*   role   how the target element is located (role, css, label, text)
\*   text   the name / label / text the locator matches
\*   arg    the value the call carries
Call(n) ==
  CASE n = "goto_create" ->
         [name |-> n, op |-> "goto", role |-> "", text |-> <<>>, arg |-> <<"create">>]
    [] n = "map_click_1" ->
         [name |-> n, op |-> "click", role |-> "#map", text |-> <<>>,
          arg |-> <<"100", "100">>]
    [] n = "map_click_2" ->
         [name |-> n, op |-> "click", role |-> "#map", text |-> <<>>,
          arg |-> <<"200", "200">>]
    [] n = "click_save" ->
         [name |-> n, op |-> "click", role |-> "button", text |-> <<"Save">>,
          arg |-> <<>>]
    [] n = "goto_list" ->
         [name |-> n, op |-> "goto", role |-> "", text |-> <<>>, arg |-> <<"list">>]
    [] n = "click_edit" ->
         [name |-> n, op |-> "click_first", role |-> "link", text |-> <<"Edit", "route">>,
          arg |-> <<>>]
    [] n = "expect_url" ->
         [name |-> n, op |-> "expect_url", role |-> "", text |-> <<>>, arg |-> <<>>]
    [] n = "expect_edit_heading" ->
         [name |-> n, op |-> "expect_visible", role |-> "heading",
          text |-> <<"Edit", "Route">>, arg |-> <<>>]
    [] n = "fill_name" ->
         [name |-> n, op |-> "fill", role |-> "label", text |-> <<"Name">>,
          arg |-> NewRouteName]
    [] n = "click_save_changes" ->
         [name |-> n, op |-> "click", role |-> "button", text |-> <<"Save", "Changes">>,
          arg |-> <<>>]
    [] n = "expect_saved_heading" ->
         [name |-> n, op |-> "expect_visible", role |-> "heading",
          text |-> <<"Saved", "Routes">>, arg |-> <<>>]
    [] n = "expect_new_name" ->
         [name |-> n, op |-> "expect_visible", role |-> "text", text |-> NewRouteName,
          arg |-> <<>>]
    [] n = "screenshot" ->
         [name |-> n, op |-> "screenshot", role |-> "", text |-> <<>>,
          arg |-> <<ScreenshotPath>>]

\* Variant: the list page is opened before the route is saved.
ScriptListBeforeSave ==
  << Call("goto_create"), Call("map_click_1"), Call("map_click_2"), Call("goto_list"),
     Call("click_save"), Call("click_edit"), Call("expect_url"),
     Call("expect_edit_heading"), Call("fill_name"), Call("click_save_changes"),
     Call("expect_saved_heading"), Call("expect_new_name"), Call("screenshot") >>

\* Variant: the screenshot is taken before the two final assertions.
ScriptShotEarly ==
  << Call("goto_create"), Call("map_click_1"), Call("map_click_2"), Call("click_save"),
     Call("goto_list"), Call("click_edit"), Call("expect_url"),
     Call("expect_edit_heading"), Call("fill_name"), Call("click_save_changes"),
     Call("screenshot"), Call("expect_saved_heading"), Call("expect_new_name") >>

\* The calls in program order.
Script ==
  << Call("goto_create"), Call("map_click_1"), Call("map_click_2"), Call("click_save"),
     Call("goto_list"), Call("click_edit"), Call("expect_url"),
     Call("expect_edit_heading"), Call("fill_name"), Call("click_save_changes"),
     Call("expect_saved_heading"), Call("expect_new_name"), Call("screenshot") >>

----------------------------------------------------------------------------
(* Regular expression of the URL assertion: re.compile(r"\/routes\/edit\/\d+") *)

Digits == {"0","1","2","3","4","5","6","7","8","9"}

DigitChar == <<"0","1","2","3","4","5","6","7","8","9">>

\* Variant: the pattern misspelt as /route/edit/\d+.
UrlPatternTypo ==
  LET lit == <<"/","r","o","u","t","e","/","e","d","i","t","/">> IN
    [i \in 1..Len(lit) |-> [kind |-> "lit", c |-> lit[i]]]
      \o << [kind |-> "digit+", c |-> ""] >>

\* The pattern as a sequence of atoms: thirteen literal characters, then \d+.
UrlPattern ==
  [i \in 1..Len(EditPrefix) |-> [kind |-> "lit", c |-> EditPrefix[i]]]
    \o << [kind |-> "digit+", c |-> ""] >>

\* Whether pattern p matches a prefix of s[i..].
RECURSIVE MatchFrom(_, _, _)
MatchFrom(p, s, i) ==
  IF p = <<>> THEN TRUE
  ELSE IF i > Len(s) THEN FALSE
  ELSE IF Head(p).kind = "lit"
       THEN s[i] = Head(p).c /\ MatchFrom(Tail(p), s, i + 1)
       ELSE s[i] \in Digits
            /\ (MatchFrom(Tail(p), s, i + 1) \/ MatchFrom(p, s, i + 1))

\* Variant: re.match, the pattern must match at the start of the string.
SearchAtStart(p, s) == MatchFrom(p, s, 1)

\* re.search: the pattern may match anywhere in the string.
Search(p, s) == \E i \in 1..Len(s) : MatchFrom(p, s, i)

\* expect(page).to_have_url(pattern): a compiled pattern is searched for in
\* the page's whole URL.
ToHaveUrl(u) == Search(UrlPattern, u)

----------------------------------------------------------------------------
(* Text matching of the driver's locators *)

\* Lower-casing of a word (locators given a string match case-insensitively).
Fold(w) ==
  CASE w = "New"     -> "new"
    [] w = "Route"   -> "route"
    [] w = "Name"    -> "name"
    [] w = "Save"    -> "save"
    [] w = "Changes" -> "changes"
    [] w = "Edit"    -> "edit"
    [] w = "Saved"   -> "saved"
    [] w = "Routes"  -> "routes"
    [] w = "Old"     -> "old"
    [] w = "Trail"   -> "trail"
    [] OTHER         -> w

FoldSeq(s) == [i \in 1..Len(s) |-> Fold(s[i])]

\* needle occurs in hay as a contiguous run of words.
Contains(hay, needle) ==
  \E i \in 0..(Len(hay) - Len(needle)) : SubSeq(hay, i + 1, i + Len(needle)) = needle

\* Substring match ignoring case: get_by_role(name="..."), get_by_label("..."),
\* get_by_text("...") given a plain string.
ContainsFolded(hay, needle) == Contains(FoldSeq(hay), FoldSeq(needle))

\* Roles whose accessible name is rendered as visible text.
TextRoles == {"text", "heading", "button", "link"}

\* The indices of the elements of the page that the step's locator matches.
Locate(dom, step) ==
  { i \in 1..Len(dom) :
      CASE step.role = "#map"   -> dom[i].role = "#map"
        [] step.role = "link"   -> dom[i].role = "link" /\ Contains(dom[i].name, step.text)
        [] step.role = "label"  -> dom[i].role = "textbox"
                                   /\ ContainsFolded(dom[i].name, step.text)
        [] step.role = "text"   -> dom[i].role \in TextRoles
                                   /\ ContainsFolded(dom[i].name, step.text)
        [] OTHER                -> dom[i].role = step.role
                                   /\ ContainsFolded(dom[i].name, step.text) }

\* Variant: a locator that accepts any number of matches.
StrictAsAny(m) == m # {}

\* A locator is strict: an action or a visibility assertion on it needs the
\* locator to resolve to exactly one element.
Strict(m) == Cardinality(m) = 1

\* locator.first resolves when at least one element matches ...
FirstResolves(m) == m # {}

\* Variant: locator.last, the latest element in document order.
FirstAsLast(m) == CHOOSE i \in m : \A j \in m : i >= j

\* ... and then denotes the earliest element in document order.
First(m) == CHOOSE i \in m : \A j \in m : i <= j

\* Whether the element the step targets can be acted on / is seen.
Resolves(dom, step) ==
  IF step.op = "click_first" THEN FirstResolves(Locate(dom, step))
  ELSE Strict(Locate(dom, step))

\* The element the step acts on (when Resolves).
Target(dom, step) ==
  IF step.op = "click_first" THEN First(Locate(dom, step))
  ELSE CHOOSE i \in Locate(dom, step) : TRUE

----------------------------------------------------------------------------
(* The application under test: route-creation, route-list and route-edit   *)
(* pages, and the store of saved routes.                                   *)

El(role, name, ref) == [role |-> role, name |-> name, ref |-> ref, value |-> <<>>]

\* Decimal digits of a natural number.
RECURSIVE Decimal(_)
Decimal(n) ==
  IF n < 10 THEN << DigitChar[n + 1] >>
  ELSE Decimal(n \div 10) \o << DigitChar[(n % 10) + 1] >>

\* The auto-generated name of a newly saved route.
DefaultName(id) == <<"Route">> \o Decimal(id)

\* The address of a route's edit page: /routes/edit/<id>.
EditUrl(id) == Origin \o EditPrefix \o Decimal(id)

RECURSIVE Reverse(_)
Reverse(s) == IF s = <<>> THEN <<>> ELSE Append(Reverse(Tail(s)), Head(s))

\* The order in which the list page shows the saved routes.
Display(rs, newest) == IF newest THEN Reverse(rs) ELSE rs

\* One row per route: its name and its "Edit route" link.
RECURSIVE ListItems(_)
ListItems(rs) ==
  IF rs = <<>> THEN <<>>
  ELSE << El("text", Head(rs).name, Head(rs).id),
          El("link", <<"Edit", "route">>, Head(rs).id) >> \o ListItems(Tail(rs))

CreatePage == << El("#map", <<>>, 0), El("button", <<"Save">>, 0) >>

ListPage(rs, newest) ==
  << El("heading", <<"Saved", "Routes">>, 0) >> \o ListItems(Display(rs, newest))

EditPage(r) ==
  << El("heading", <<"Edit", "Route">>, r.id),
     [role |-> "textbox", name |-> <<"Name">>, ref |-> r.id, value |-> r.name],
     El("button", <<"Save", "Changes">>, r.id) >>

\* The store after the create page's Save: one more route, under a fresh id.
AppSave(rs, id) == Append(rs, [id |-> id, name |-> DefaultName(id)])

\* The store after the edit page's Save Changes: route id bears the new name.
AppRename(rs, id, name) ==
  [i \in 1..Len(rs) |-> IF rs[i].id = id THEN [rs[i] EXCEPT !.name = name] ELSE rs[i]]

Ids(rs) == { rs[i].id : i \in 1..Len(rs) }

RouteOf(rs, id) == rs[CHOOSE i \in 1..Len(rs) : rs[i].id = id]

\* A page with its k-th element missing.
Drop(p, k) == SubSeq(p, 1, k - 1) \o SubSeq(p, k + 1, Len(p))

\* What an application that does not keep its contract may render instead of
\* page p: the page, the page less one element, or nothing.
Degraded(p) == {p, <<>>} \cup { Drop(p, k) : k \in 1..Len(p) }

\* Where an application that does not keep its contract may land after the
\* Edit route link of route id is followed.
Landings(id) ==
  { EditUrl(id),
    Origin \o EditPrefix \o <<"a", "b", "c">>,
    Origin \o EditPrefix \o Decimal(id) \o <<"a", "b", "c">>,
    Origin \o <<"/", "a", "d", "m", "i", "n">> \o EditPrefix \o Decimal(id),
    Origin \o EditPrefix \o Decimal(id) \o <<"/", "d", "e", "l", "e", "t", "e">>,
    Origin \o EditPrefix,
    Origin \o ListPath }

----------------------------------------------------------------------------
(* State *)

VARIABLES
  pc,          \* index in Script of the call to make next (or the one that raised)
  status,      \* "running", "passed" (the function returned), "failed" (it raised)
  failure,     \* "none", "action" or "assertion": what raised
  log,         \* names of the calls made in this run, in order
  run,         \* number of the current run
  contract,    \* whether the application and its host keep their contract
  newestFirst, \* whether the list page shows the newest route first
  routes,      \* the application's saved routes, in creation order
  nextId,      \* the id the next saved route gets
  dom,         \* the elements of the page the session shows, in document order
  url,         \* the session's current URL
  points,      \* map positions clicked on the create page
  file,        \* content of the screenshot path: a sequence of written images
  editId,      \* route whose edit page was opened in this run (0: none)
  origName,    \* that route's name when its edit page was opened
  created,     \* id of the route this run's Save click created (0: none)
  start,       \* the saved routes when this run began
  startFile,   \* the screenshot path's content when this run began
  initial,     \* the saved routes when the first run began
  writes       \* number of times this run wrote the screenshot path

vars == << pc, status, failure, log, run, contract, newestFirst, routes, nextId,
           dom, url, points, file, editId, origName, created, start, startFile,
           initial, writes >>

appVars == << routes, nextId, created >>
pageVars == << dom, url, points, editId, origName >>
fileVars == << file, writes >>
runVars == << run, contract, newestFirst, start, startFile, initial >>

R(id, name) == [id |-> id, name |-> name]

\* The saved routes a first run may find.
InitialRoutes ==
  { <<>>,
    << R(1, <<"Old", "Trail">>) >>,
    << R(1, NewRouteName) >>,
    << R(8, <<"my", "new", "route", "name">>), R(9, <<"Old", "Trail">>) >> }

MaxId(rs) == IF rs = <<>> THEN 0 ELSE CHOOSE m \in Ids(rs) : \A j \in Ids(rs) : j <= m

\* An image left at the screenshot path by an earlier session.
StaleImage == [run |-> 0, page |-> <<>>]

Init ==
  /\ pc = 1
  /\ status = "running"
  /\ failure = "none"
  /\ log = <<>>
  /\ run = 1
  /\ contract \in BOOLEAN
  /\ newestFirst \in BOOLEAN
  /\ routes \in InitialRoutes
  /\ nextId = MaxId(routes) + 1
  /\ dom = <<>>
  /\ url = <<>>
  /\ points = <<>>
  /\ file \in { <<>>, << StaleImage >> }
  /\ editId = 0
  /\ origName = <<>>
  /\ created = 0
  /\ start = routes
  /\ startFile = file
  /\ initial = routes
  /\ writes = 0

----------------------------------------------------------------------------
(* Control flow of test_edit_route_name: the calls run one after another;  *)
(* a call that raises ends the function, the last call's return ends it.   *)

NextPc(p, ok) == IF ok THEN p + 1 ELSE p

\* Variant: a raised call is swallowed and the function goes on.
NextStatusSwallow(p, ok) == IF ok /\ p = Len(Script) THEN "passed" ELSE "running"

NextStatus(p, ok) ==
  IF ~ok THEN "failed" ELSE IF p = Len(Script) THEN "passed" ELSE "running"

Running == status = "running" /\ pc \in 1..Len(Script)

Complete(ok, kind) ==
  /\ pc' = NextPc(pc, ok)
  /\ status' = NextStatus(pc, ok)
  /\ failure' = IF ok THEN failure ELSE kind
  /\ log' = Append(log, Script[pc].name)

\* Outcomes that only a host or application off its contract produces.
Env == IF contract THEN {TRUE} ELSE BOOLEAN

Renders(p) == IF contract THEN {p} ELSE Degraded(p)

----------------------------------------------------------------------------
(* The calls *)

\* Variant: the image is appended to what the path held.
WriteFileAppend(old, image) == Append(old, image)

\* page.screenshot(path=...) replaces whatever the path held by the image.
WriteFile(old, image) == << image >>

\* The full-page image of what the session shows.
Capture == [run |-> run, page |-> dom]

\* page.goto(url): raises when the host does not answer, else shows the page.
Goto ==
  /\ Running
  /\ Script[pc].op = "goto"
  /\ \E up \in Env :
       IF up
       THEN /\ \E p \in Renders(IF Script[pc].arg = <<"create">>
                                THEN CreatePage ELSE ListPage(routes, newestFirst)) :
                 dom' = p
            /\ url' = Origin \o (IF Script[pc].arg = <<"create">> THEN CreatePath ELSE ListPath)
            /\ points' = <<>>
            /\ UNCHANGED << editId, origName >>
            /\ Complete(TRUE, "action")
       ELSE /\ UNCHANGED pageVars
            /\ Complete(FALSE, "action")
  /\ UNCHANGED << appVars, fileVars, runVars >>

IsClick == Running /\ Script[pc].op \in {"click", "click_first"}

Clicked == dom[Target(dom, Script[pc])]

\* Variant: a call whose locator does not resolve is skipped without raising.
MissSkipped ==
  /\ Running
  /\ Script[pc].op \in {"click", "click_first", "fill", "expect_visible"}
  /\ ~Resolves(dom, Script[pc])
  /\ Complete(TRUE, "action")
  /\ UNCHANGED << appVars, pageVars, fileVars, runVars >>

\* Variant: a call that raises first removes what the run stored.
MissRollback ==
  /\ Running
  /\ Script[pc].op \in {"click", "click_first", "fill", "expect_visible"}
  /\ ~Resolves(dom, Script[pc])
  /\ Complete(FALSE, IF Script[pc].op = "expect_visible" THEN "assertion" ELSE "action")
  /\ routes' = start
  /\ UNCHANGED << nextId, created, pageVars, fileVars, runVars >>

\* A click, a fill or a visibility assertion whose locator does not resolve
\* to its element raises, and nothing is acted on.
Miss ==
  /\ Running
  /\ Script[pc].op \in {"click", "click_first", "fill", "expect_visible"}
  /\ ~Resolves(dom, Script[pc])
  /\ Complete(FALSE, IF Script[pc].op = "expect_visible" THEN "assertion" ELSE "action")
  /\ UNCHANGED << appVars, pageVars, fileVars, runVars >>

\* locator("#map").click(position=...): a point is added to the drawn route.
ClickMap ==
  /\ IsClick
  /\ Resolves(dom, Script[pc])
  /\ Clicked.role = "#map"
  /\ points' = Append(points, Script[pc].arg)
  /\ Complete(TRUE, "action")
  /\ UNCHANGED << appVars, dom, url, editId, origName, fileVars, runVars >>

\* Click on the create page's Save button: the application stores the route.
ClickSave ==
  /\ IsClick
  /\ Resolves(dom, Script[pc])
  /\ Clicked.role = "button" /\ Clicked.name = <<"Save">>
  /\ \E stored \in Env :
       IF stored
       THEN /\ routes' = AppSave(routes, nextId)
            /\ nextId' = nextId + 1
            /\ created' = nextId
       ELSE UNCHANGED appVars
  /\ Complete(TRUE, "action")
  /\ UNCHANGED << pageVars, fileVars, runVars >>

\* Click on an Edit route link: the application opens that route's edit page.
ClickEdit ==
  /\ IsClick
  /\ Resolves(dom, Script[pc])
  /\ Clicked.role = "link"
  /\ LET r == RouteOf(routes, Clicked.ref) IN
       /\ \E u \in (IF contract THEN {EditUrl(r.id)} ELSE Landings(r.id)) : url' = u
       /\ \E p \in Renders(EditPage(r)) : dom' = p
       /\ editId' = r.id
       /\ origName' = r.name
  /\ Complete(TRUE, "action")
  /\ UNCHANGED << appVars, points, fileVars, runVars >>

\* get_by_label("Name").fill(...): the field's value is replaced.
Fill ==
  /\ Running
  /\ Script[pc].op = "fill"
  /\ Resolves(dom, Script[pc])
  /\ dom' = [dom EXCEPT ![Target(dom, Script[pc])].value = Script[pc].arg]
  /\ Complete(TRUE, "action")
  /\ UNCHANGED << appVars, url, points, editId, origName, fileVars, runVars >>

\* The value of the edit page's Name field, as the application reads it.
FieldValue(d, dflt) ==
  IF \E i \in 1..Len(d) : d[i].role = "textbox"
  THEN d[CHOOSE i \in 1..Len(d) : d[i].role = "textbox"].value
  ELSE dflt

\* Click on the edit page's Save Changes button: the application renames the
\* route to the field's value and returns to the list page.
ClickSaveChanges ==
  /\ IsClick
  /\ Resolves(dom, Script[pc])
  /\ Clicked.role = "button" /\ Clicked.name = <<"Save", "Changes">>
  /\ \E renamed \in Env, back \in Env :
       LET id == Clicked.ref
           rs == IF renamed
                 THEN AppRename(routes, id, FieldValue(dom, RouteOf(routes, id).name))
                 ELSE routes
       IN /\ routes' = rs
          /\ IF back
             THEN /\ \E p \in Renders(ListPage(rs, newestFirst)) : dom' = p
                  /\ url' = Origin \o ListPath
             ELSE UNCHANGED << dom, url >>
  /\ Complete(TRUE, "action")
  /\ UNCHANGED << nextId, created, points, editId, origName, fileVars, runVars >>

\* expect(page).to_have_url(...)
ExpectUrl ==
  /\ Running
  /\ Script[pc].op = "expect_url"
  /\ Complete(ToHaveUrl(url), "assertion")
  /\ UNCHANGED << appVars, pageVars, fileVars, runVars >>

\* expect(locator).to_be_visible() on a locator that resolves.
ExpectVisible ==
  /\ Running
  /\ Script[pc].op = "expect_visible"
  /\ Resolves(dom, Script[pc])
  /\ Complete(TRUE, "assertion")
  /\ UNCHANGED << appVars, pageVars, fileVars, runVars >>

\* page.screenshot(path=...): raises when the image cannot be taken, else
\* writes it to the path.
Screenshot ==
  /\ Running
  /\ Script[pc].op = "screenshot"
  /\ \E up \in Env :
       IF up
       THEN /\ file' = WriteFile(file, Capture)
            /\ writes' = writes + 1
            /\ Complete(TRUE, "action")
       ELSE /\ UNCHANGED fileVars
            /\ Complete(FALSE, "action")
  /\ UNCHANGED << appVars, pageVars, runVars >>

\* The scenario is run again, in a fresh session, against the same application.
StartRun ==
  /\ status # "running"
  /\ run < MaxRuns
  /\ run' = run + 1
  /\ pc' = 1
  /\ status' = "running"
  /\ failure' = "none"
  /\ log' = <<>>
  /\ dom' = <<>>
  /\ url' = <<>>
  /\ points' = <<>>
  /\ editId' = 0
  /\ origName' = <<>>
  /\ created' = 0
  /\ start' = routes
  /\ startFile' = file
  /\ writes' = 0
  /\ UNCHANGED << contract, newestFirst, routes, nextId, file, initial >>

Step ==
  \/ Goto
  \/ Miss
  \/ ClickMap
  \/ ClickSave
  \/ ClickEdit
  \/ Fill
  \/ ClickSaveChanges
  \/ ExpectUrl
  \/ ExpectVisible
  \/ Screenshot

Next == Step \/ StartRun

Spec == Init /\ [][Next]_vars

\* The runs against an application and host that keep their contract.
ContractInit == Init /\ contract

\* Every call of the script blocks for at most the driver's timeout and then
\* returns or raises, so a running script always takes its next step.
ContractFairSpec == ContractInit /\ [][Next]_vars /\ WF_vars(Step)

----------------------------------------------------------------------------
(* Properties *)

\* The order of the calls as the scenario's description gives it.
StepOrder ==
  << "goto_create", "map_click_1", "map_click_2", "click_save", "goto_list",
     "click_edit", "expect_url", "expect_edit_heading", "fill_name",
     "click_save_changes", "expect_saved_heading", "expect_new_name",
     "screenshot" >>

Range(s) == { s[i] : i \in 1..Len(s) }

\* The calls of this run that returned (the last logged call of a failed run raised).
Returned == IF status = "failed" THEN SubSeq(log, 1, Len(log) - 1) ELSE log

\* The call the run is at: the next one to make, or the one that raised.
At(n) == pc \in 1..Len(Script) /\ Script[pc].name = n

\* What the log and the failure record hold in each status of a run.
RunShape ==
  /\ (status = "failed") =>
        (/\ failure # "none"
         /\ pc \in 1..Len(StepOrder)
         /\ log = SubSeq(StepOrder, 1, pc))
  /\ (status = "running") =>
        (/\ failure = "none"
         /\ log = SubSeq(StepOrder, 1, pc - 1))
  /\ (status = "passed") =>
        (/\ failure = "none"
         /\ log = StepOrder
         /\ writes = 1)

\* C1: the first call that raises ends the run as failed, with no later call
\* made after it (the only step a failed run allows is the start of another
\* run); a run has passed only when all thirteen calls returned, the last of
\* them the screenshot write.
C1_FirstFailureEndsRun ==
  /\ [](RunShape)
  /\ [][(status = "failed") => (run' = run + 1 /\ status' = "running" /\ log' = <<>>)]_vars

\* A run that raised part-way: some calls returned, the rest were never made.
C1_Witness ==
  status = "failed" /\ Len(log) > 1 /\ Len(log) < Len(StepOrder)

\* C2: the calls made so far in a run are always an initial part of the fixed
\* order, so each call is made at most once, in order, one at a time.
C2_FixedOrder ==
  /\ Len(log) <= Len(StepOrder)
  /\ log = SubSeq(StepOrder, 1, Len(log))
  /\ \A i, j \in 1..Len(log) : i # j => log[i] # log[j]

C2_Witness == status = "passed" /\ log = StepOrder

\* The routes that were saved when the run began are all still saved under
\* the same names.
StartNamesKept ==
  /\ Len(routes) >= Len(start)
  /\ \A i \in 1..Len(start) : routes[i] = start[i]

\* The route whose Edit route link stood first when the list page was opened.
FirstListedId ==
  IF newestFirst \/ start = <<>> THEN created ELSE start[1].id

\* C3 as claimed: a passed run has created exactly one route, that route is
\* the one now named "New Route Name", and every route saved before the run
\* keeps its name.
C3_RenamesCreatedRoute ==
  (contract /\ status = "passed") =>
     /\ created \notin Ids(start)
     /\ Ids(routes) = Ids(start) \cup {created}
     /\ Len(routes) = Len(start) + 1
     /\ RouteOf(routes, created).name = NewRouteName
     /\ StartNamesKept

\* C3 as amended: a passed run (application on contract) has created exactly
\* one route and has renamed the route listed first on the list page, which
\* is the created route when no route was saved before the run or when the
\* list shows the newest route first; no other route's name has changed.
C3_RenamesFirstListed ==
  (contract /\ status = "passed") =>
     /\ created \notin Ids(start)
     /\ Ids(routes) = Ids(start) \cup {created}
     /\ Len(routes) = Len(start) + 1
     /\ editId = FirstListedId
     /\ RouteOf(routes, editId).name = NewRouteName
     /\ \A i \in 1..Len(routes) :
          routes[i].id # editId =>
             routes[i] = IF i <= Len(start) THEN start[i]
                         ELSE [id |-> created, name |-> DefaultName(created)]
     /\ (start = <<>> => editId = created)

\* A passed run that renamed a route saved before the run, not the one it created.
C3_Witness ==
  /\ contract
  /\ status = "passed"
  /\ editId \in Ids(start)
  /\ RouteOf(start, editId).name # NewRouteName
  /\ RouteOf(routes, created).name = DefaultName(created)

\* The URL assertion has passed and the page has not been left since.
UrlAccepted ==
  status # "passed" /\ (At("expect_edit_heading") \/ At("fill_name") \/ At("click_save_changes"))

\* The URL is exactly origin, /routes/edit/, one or more digits.
ExactEditUrl(u) ==
  LET n == Len(Origin) + Len(EditPrefix) IN
    /\ Len(u) > n
    /\ SubSeq(u, 1, n) = Origin \o EditPrefix
    /\ \A i \in (n + 1)..Len(u) : u[i] \in Digits

\* The URL holds /routes/edit/ directly followed by a digit.
HasEditDigit(u) ==
  \E i \in 1..(Len(u) - Len(EditPrefix)) :
     /\ SubSeq(u, i, i + Len(EditPrefix) - 1) = EditPrefix
     /\ u[i + Len(EditPrefix)] \in Digits

\* C4 as claimed: the URL assertion passes only on a URL whose path is
\* /routes/edit/<digits> and nothing else.
C4_UrlExactEditPath == UrlAccepted => ExactEditUrl(url)

\* C4 as amended: the URL assertion passes exactly when the URL contains
\* /routes/edit/ directly followed by at least one digit, whatever comes
\* before or after; otherwise the run fails there with an assertion failure.
C4_UrlContainsEditDigits ==
  /\ (UrlAccepted => HasEditDigit(url))
  /\ (status = "failed" /\ At("expect_url")) => (~HasEditDigit(url) /\ failure = "assertion")
  /\ (status = "running" /\ At("expect_url")) => ENABLED ExpectUrl

\* The assertion accepted a URL that continues after the digits.
C4_Witness ==
  /\ UrlAccepted
  /\ ~ExactEditUrl(url)
  /\ SubSeq(url, 1, Len(EditUrl(editId))) = EditUrl(editId)

\* The visible text of the page shows t (case and surrounding words ignored).
Shows(d, t) == \E i \in 1..Len(d) : d[i].role \in TextRoles /\ ContainsFolded(d[i].name, t)

\* C5 as claimed: a passed run ends on a list that shows "New Route Name" and
\* does not show the name the edited route had before.
C5_OriginalNameGone ==
  status = "passed" => (Shows(dom, NewRouteName) /\ ~Shows(dom, origName))

\* C5 as amended: a passed run ends on a page with a Saved Routes heading on
\* which exactly one element shows "New Route Name"; that the edited route's
\* earlier name is gone is not checked.
C5_ExactlyOneNewName ==
  status = "passed" =>
     /\ Cardinality({ i \in 1..Len(dom) :
                        dom[i].role \in TextRoles /\ ContainsFolded(dom[i].name, NewRouteName) }) = 1
     /\ \E i \in 1..Len(dom) :
          dom[i].role = "heading" /\ ContainsFolded(dom[i].name, <<"Saved", "Routes">>)

\* A passed run whose list still shows the edited route's earlier name.
C5_Witness == status = "passed" /\ editId # 0 /\ Shows(dom, origName)

NoEditLink(d) ==
  ~ \E i \in 1..Len(d) : d[i].role = "link" /\ Contains(d[i].name, <<"Edit", "route">>)

\* How a run that failed at the link click stands.
FailedAtEditClick ==
  (status = "failed" /\ At("click_edit")) =>
     (/\ NoEditLink(dom)
      /\ failure = "action"
      /\ writes = 0
      /\ Range(log) \cap {"expect_url", "expect_edit_heading", "fill_name",
                          "click_save_changes", "screenshot"} = {})

\* C6: when the page shows no Edit route link as the link click is made, the
\* click raises an action failure and the run ends there: no URL or heading
\* assertion, no fill, no Save Changes click, no screenshot, no success.
C6_NoEditLinkFails ==
  /\ [][(status = "running" /\ At("click_edit") /\ NoEditLink(dom)) =>
          (status' = "failed" /\ failure' = "action" /\ pc' = pc /\ routes' = routes
           /\ file' = file /\ log' = Append(log, "click_edit"))]_vars
  /\ [](FailedAtEditClick)

\* The list page was shown, without any route, and the link click raised.
C6_Witness ==
  /\ status = "failed"
  /\ At("click_edit")
  /\ failure = "action"
  /\ dom # <<>>
  /\ NoEditLink(dom)

\* No saved route's name contains "New Route Name".
NoNewName(rs) == \A i \in 1..Len(rs) : ~ContainsFolded(rs[i].name, NewRouteName)

\* C7 as claimed: with the application on contract, a first run on an
\* application without saved routes, and every later run on the state the
\* earlier ones left, never fails.
C7_ContractRunsPass ==
  (contract /\ initial = <<>>) => status # "failed"

\* A run on contract begun with no saved route named like the new name.
CleanRun == contract /\ NoNewName(start)

\* C7 as amended: with the application on contract, every run begun when no
\* saved route's name contains "New Route Name" (so every run on an
\* application without saved routes) never fails and eventually passes.
C7_CleanRunsPass ==
  /\ [](CleanRun => status # "failed")
  /\ (CleanRun /\ status = "running") ~> (status = "passed")

\* A run on contract that passed with a route already saved before it.
C7_Witness == CleanRun /\ start # <<>> /\ status = "passed"

\* C8: a run writes the screenshot path at most once, and only as its last
\* call after the twelve before it returned; until then, and in a run that
\* failed, the path holds what it held when the run began.
C8_ScreenshotLastOnly ==
  /\ writes <= 1
  /\ (writes = 1) => (status = "passed" /\ Returned = StepOrder)
  /\ (status # "passed") => (writes = 0 /\ file = startFile)

\* A run that failed late, with an earlier image still at the path.
C8_Witness ==
  status = "failed" /\ At("screenshot") /\ file = << StaleImage >>

\* C9: after a passed run the screenshot path holds exactly one image, the
\* one taken by that run of the page the run ended on, whatever it held before.
C9_FileIsLastCapture ==
  status = "passed" =>
     /\ file # <<>>
     /\ Len(file) = 1
     /\ file[1].run = run
     /\ file[1].page = dom

\* A second passed run, over the image of the first.
C9_Witness ==
  /\ status = "passed"
  /\ run > 1
  /\ startFile # <<>>
  /\ startFile[1].run = run - 1

\* What the store holds before each of the two mutating clicks has returned.
StoreGated ==
  /\ ("click_save" \notin Range(Returned)) => (routes = start /\ created = 0)
  /\ ("click_save_changes" \notin Range(Returned)) =>
        (/\ StartNamesKept
         /\ (created # 0 => [id |-> created, name |-> DefaultName(created)] \in Range(routes)))
  /\ (status = "failed" /\ created # 0) => (created \in Ids(routes))

\* C10: until the Save click has returned the run has created no route; until
\* the Save Changes click has returned every route saved before the run keeps
\* its name and the created route its default name; a failed run leaves the
\* route it created in the store, and a failed run changes the store no more.
C10_NoRollback ==
  /\ [](StoreGated)
  /\ [][(status = "failed") => (routes' = routes)]_vars

\* A run that failed after its Save click: the created route is still saved.
C10_Witness ==
  /\ status = "failed"
  /\ created # 0
  /\ created \in Ids(routes)
  /\ "click_save_changes" \notin Range(Returned)

====
